---- MODULE Spec2Model ----
(***************************************************************************)
(* qiita_client: the QiitaClient transport (token fetch, OAuth2 resend,    *)
(* retry loop), the heartbeat thread, the completion payload and the       *)
(* plugin's job run (BaseQiitaPlugin.__call__).                            *)
(*                                                                         *)
(* Two flows share one client: "main" (the plugin call) and "hb" (the      *)
(* daemon thread running _heartbeat).  Shared state: the module global     *)
(* JOB_COMPLETED and the client's _token.  Every action holds at most one  *)
(* access to shared state or one network exchange.                         *)
(*                                                                         *)
(* Python values: None is <<>>, a present value x is <<x>>; a string is a  *)
(* sequence of text pieces ('' is <<>>); a dict is a function.             *)
(***************************************************************************)
EXTENDS Integers, Sequences, FiniteSets, TLC

VARIABLES
    JOB_COMPLETED,  \* qiita_client.JOB_COMPLETED, the module global
    token,          \* QiitaClient._token (0: not fetched yet)
    issued,         \* server side: how many access tokens were issued
    call,           \* per flow: the frame of _request_retry / _fetch_token
    pc,             \* where BaseQiitaPlugin.__call__ is
    raised,         \* the exception that left __call__ ("" if none)
    onf_fp,         \* whether the plugin object has an attribute onf_fp
    job_id,         \* argument of __call__
    task_dict,      \* BaseQiitaPlugin.task_dict (names of the commands)
    dir_exists,     \* exists(output_dir)
    job_info,       \* local job_info of __call__
    locals,         \* locals success, artifacts_info, error_msg of __call__
    task,           \* what the job function did: "", "running", "return",
                    \* "raise" (an Exception), "exit" (a BaseException)
    completeCalls,  \* how many times complete_job was entered
    payload,        \* the payload complete_job posts
    calls,          \* the calls of get/post the main flow entered, in
                    \* order, each with the way it ended ("" while it runs)
    hb,             \* the frame of _heartbeat in the daemon thread
    codec,          \* a stand-alone application of _format_payload
    runs,           \* several job runs of one process: where each is, and
                    \* where its heartbeat loop is
    patch,          \* a stand-alone call of QiitaClient.patch
    cmp,            \* a stand-alone comparison of two values with == and !=
    probe           \* two calls of get_job_info against one server

\* the frames used outside the job run
standalone == <<codec, runs, patch, cmp, probe>>

vars == <<JOB_COMPLETED, token, issued, call, pc, raised, onf_fp, job_id,
          task_dict, dir_exists, job_info, locals, task, completeCalls,
          payload, calls, hb, standalone>>

----------------------------------------------------------------------------
(* Bounds *)

\* access tokens the identity endpoint issues in one run, the first included
MaxTokens == 3
\* artifacts in a list given to _format_payload
MaxArtifacts == 2
\* job runs of one process
MaxJobs == 2

----------------------------------------------------------------------------
(* Python values *)

None == <<>>
Some(x) == <<x>>
IsNone(v) == v = <<>>
Value(v) == v[1]

Threads == {"main", "hb"}

----------------------------------------------------------------------------
(* The server's answers *)

Statuses == {200, 400, 403, 404, 500}

\* r.text / r.json() of a response:
\*   "text"    not JSON (an empty body too): r.json() raises ValueError
\*   "empty"   the JSON object {} (falsy)
\*   "expired" {"error_description": "Oauth2 error: token has timed out"}
\*   "denied"  {"error_description": <another description>}
\*   "job"     {"command": "cmd", "parameters": {...}}: no error_description
Bodies == {"text", "empty", "expired", "denied", "job"}

\* every body with a 400; elsewhere the bodies that make a difference
\* (200: a job, {}, no JSON), and one expiry body under another status
Responses ==
    {r \in [status : Statuses, body : Bodies] :
        \/ r.status = 400
        \/ r.body = "text"
        \/ r.status = 200 /\ r.body \in {"job", "empty"}
        \/ r.status = 500 /\ r.body = "expired"}

\* requests.ConnectionError: no response at all
Unreachable == [status |-> 0, body |-> "unreachable"]

NetResults == Responses \cup {Unreachable}

NoResponse == [status |-> -1, body |-> ""]

IsJSON(b) == b \in {"empty", "expired", "denied", "job"}
Truthy(j) == j \in {"expired", "denied", "job"}
HasDescription(j) == j \in {"expired", "denied"}
Description(j) ==
    IF j = "expired" THEN "Oauth2 error: token has timed out"
    ELSE "Oauth2 error: invalid access token"

AuthOk == [status |-> 200, body |-> "access_token"]
AuthRejected == [status |-> 401, body |-> "text"]
AuthResults == {AuthOk, AuthRejected, Unreachable}

----------------------------------------------------------------------------
(* QiitaClient: _fetch_token, _request_oauth2, _request_retry *)

NoMsg == [method |-> "", url |-> "", status |-> 0, text |-> ""]

Idle ==
    [pc |-> "idle", method |-> "", url |-> "", retries |-> 0,
     r |-> NoResponse, pending |-> 0, outcome |-> "", result |-> None,
     msg |-> NoMsg,
     \* history of this call: token-expiry answers to a first send,
     \* authentication requests sent, tokens stored, resends, connection
     \* failures met
     expired |-> 0, fetches |-> 0, stored |-> 0, resends |-> 0,
     unreachable |-> 0,
     \* the token in the Authorization header of the request sent last
     bearer |-> 0,
     \* the status of the last answer of the authenticate url (-1: none yet)
     auth |-> -1]

\* retries = 2 of _request_retry
RequestRetries == 2

\* the frame on entry of _request_retry, before its loop
request_retry_enter(method, url) ==
    [Idle EXCEPT !.pc = "attempt", !.method = method, !.url = url,
                 !.retries = RequestRetries]

\* an exception leaves the call / the call returns v
Raise(c, type, msg) == [c EXCEPT !.pc = "done", !.outcome = type, !.msg = msg]
Return(c, v) == [c EXCEPT !.pc = "done", !.outcome = "ok", !.result = v]

IsExpiry(net) == net.status = 400 /\ net.body = "expired"

\* try: return r.json() except ValueError: return None
ResponseJson(r) == IF IsJSON(r.body) THEN Some(r.body) ELSE None

\* the statuses the loop of _request_retry raises a typed error for
StatusError(status) ==
    CASE status = 404 -> "NotFoundError"
      [] status = 403 -> "ForbiddenError"
      [] status = 400 -> "BadRequestError"
      [] OTHER -> ""

\* the message of the final RuntimeError
request_failed_msg(c, r) ==
    [method |-> c.method, url |-> c.url, status |-> r.status, text |-> r.body]

\* a 404 were handled like a status that is tried again
request_retry_classify_retrying_404(c, r) ==
    LET c1 == [c EXCEPT !.r = r] IN
    IF r.status \in {403, 400}
    THEN Raise(c1, StatusError(r.status), [NoMsg EXCEPT !.text = r.body])
    ELSE IF r.status = 200 THEN Return(c1, ResponseJson(r))
    ELSE IF c1.retries > 0 THEN [c1 EXCEPT !.pc = "attempt"]
    ELSE Raise(c1, "RuntimeError", request_failed_msg(c1, r))

\* what is left of one turn of the loop of _request_retry once
\* _request_oauth2 returned r (retries is already decremented)
request_retry_classify(c, r) ==
    LET c1 == [c EXCEPT !.r = r] IN
    IF StatusError(r.status) # ""
    THEN Raise(c1, StatusError(r.status), [NoMsg EXCEPT !.text = r.body])
    ELSE IF r.status = 200 THEN Return(c1, ResponseJson(r))
    ELSE IF c1.retries > 0 THEN [c1 EXCEPT !.pc = "attempt"]
    ELSE Raise(c1, "RuntimeError", request_failed_msg(c1, r))

\* token_expired without the test of the status
token_expired_any_status(r) ==
    IF r.body = "expired" THEN "refresh"
    ELSE IF r.status = 400 /\ r.body = "job" THEN "KeyError"
    ELSE "no"

\* the test of _request_oauth2 on the first response: "refresh" when the
\* token is to be fetched again, "KeyError" when r_json['error_description']
\* raises, "no" otherwise
token_expired(r) ==
    IF r.status # 400 THEN "no"
    ELSE LET r_json == ResponseJson(r) IN
         IF IsNone(r_json) \/ ~Truthy(Value(r_json)) THEN "no"
         ELSE IF ~HasDescription(Value(r_json)) THEN "KeyError"
         ELSE IF Description(Value(r_json)) = "Oauth2 error: token has timed out"
              THEN "refresh"
              ELSE "no"

\* connection_error were the loop of _request_retry to catch the error and
\* go on to its next turn
connection_error_retried(c) ==
    LET c1 == [c EXCEPT !.unreachable = @ + 1] IN
    IF c1.retries > 0 THEN [c1 EXCEPT !.pc = "attempt"]
    ELSE Raise(c1, "RuntimeError", request_failed_msg(c1, c1.r))

\* a requests.ConnectionError raised by req() is caught nowhere in the client
connection_error(c) ==
    Raise([c EXCEPT !.unreachable = @ + 1], "ConnectionError", NoMsg)

\* _request_oauth2 up to its first response, and what follows when no token
\* is fetched
request_oauth2_first(c, net) ==
    LET c1 == [c EXCEPT !.expired = IF IsExpiry(net) THEN @ + 1 ELSE @] IN
    IF net = Unreachable THEN connection_error(c1)
    ELSE CASE token_expired(net) = "refresh" ->
                  [c1 EXCEPT !.pc = "fetch_token", !.r = net]
           [] token_expired(net) = "KeyError" ->
                  Raise([c1 EXCEPT !.r = net], "KeyError", NoMsg)
           [] OTHER -> request_retry_classify(c1, net)

\* the response of the first send were returned, nothing sent again
request_oauth2_no_resend(c, net) ==
    request_retry_classify([c EXCEPT !.resends = @ + 1], c.r)

\* _request_oauth2 after the token was fetched again: the request is sent
\* once more and its response is returned as it is
request_oauth2_resend(c, net) ==
    LET c1 == [c EXCEPT !.resends = @ + 1] IN
    IF net = Unreachable THEN connection_error(c1)
    ELSE request_retry_classify(c1, net)

\* the header were set once, with the first request of the call
authorization_kept(c, stored) == IF c.bearer # 0 THEN c.bearer ELSE stored

\* 'Bearer %s' % self._token: the token is read each time the header is set
authorization(c, stored) == stored

\* one turn of `while retries > 0` up to the first response
Attempt(t) ==
    /\ call[t].pc = "attempt"
    /\ call[t].retries > 0
    /\ \E net \in NetResults :
          call' = [call EXCEPT ![t] =
                     request_oauth2_first(
                         [call[t] EXCEPT !.retries = @ - 1,
                                         !.bearer = authorization(call[t], token)],
                         net)]
    /\ UNCHANGED <<JOB_COMPLETED, token, issued, pc, raised, onf_fp, job_id,
                   task_dict, dir_exists, job_info, locals, task,
                   completeCalls, payload, calls, hb, standalone>>

\* the status of the answer were not tested
fetch_token_error_none(a) == ""

\* if r.status_code != 200: raise ValueError(...): the error, "" if none
fetch_token_error(a) == IF a.status # 200 THEN "ValueError" ELSE ""

\* _fetch_token: the POST to the authenticate url and the status test
FetchToken(t) ==
    /\ call[t].pc = "fetch_token"
    /\ \E a \in AuthResults :
          LET c1 == [call[t] EXCEPT !.fetches = @ + 1, !.auth = a.status] IN
          IF a = Unreachable
          THEN /\ call' = [call EXCEPT ![t] = connection_error(c1)]
               /\ issued' = issued
          ELSE IF fetch_token_error(a) # ""
          THEN /\ call' = [call EXCEPT ![t] =
                             Raise(c1, fetch_token_error(a), NoMsg)]
               /\ issued' = issued
          ELSE /\ issued < MaxTokens
               /\ issued' = issued + 1
               /\ call' = [call EXCEPT ![t] =
                             [c1 EXCEPT !.pc = "store_token",
                                        !.pending = issued + 1]]
    /\ UNCHANGED <<JOB_COMPLETED, token, pc, raised, onf_fp, job_id,
                   task_dict, dir_exists, job_info, locals, task,
                   completeCalls, payload, calls, hb, standalone>>

\* self._token = r.json()['access_token']
StoreToken(t) ==
    /\ call[t].pc = "store_token"
    /\ token' = call[t].pending
    /\ call' = [call EXCEPT ![t] =
                  LET c1 == [call[t] EXCEPT !.stored = @ + 1] IN
                  IF c1.method = "init" THEN Return(c1, None)
                  ELSE [c1 EXCEPT !.pc = "resend"]]
    /\ UNCHANGED <<JOB_COMPLETED, issued, pc, raised, onf_fp, job_id,
                   task_dict, dir_exists, job_info, locals, task,
                   completeCalls, payload, calls, hb, standalone>>

\* the second req() of _request_oauth2 and the rest of the loop's turn
Resend(t) ==
    /\ call[t].pc = "resend"
    /\ \E net \in NetResults :
          call' = [call EXCEPT ![t] =
                     request_oauth2_resend(
                         [call[t] EXCEPT !.bearer = authorization(call[t], token)],
                         net)]
    /\ UNCHANGED <<JOB_COMPLETED, token, issued, pc, raised, onf_fp, job_id,
                   task_dict, dir_exists, job_info, locals, task,
                   completeCalls, payload, calls, hb, standalone>>

----------------------------------------------------------------------------
(* _format_payload *)

\* Python truth of artifacts_info: None and [] are false
ListTruthy(l) == ~IsNone(l) /\ Len(Value(l)) > 0

\* {a_info.output_name: {...} for a_info in artifacts_info}: the entries are
\* set in the order of the list, a later one replacing an earlier one of
\* the same key
RECURSIVE DictComprehension(_)
DictComprehension(l) ==
    IF l = <<>> THEN <<>>
    ELSE LET a_info == l[Len(l)] IN
         (a_info.output_name :>
              [artifact_type |-> a_info.artifact_type,
               filepaths |-> a_info.files])
         @@ DictComprehension(SubSeq(l, 1, Len(l) - 1))

\* the mapping were an earlier artifact to keep its key
RECURSIVE FirstWins(_)
FirstWins(l) ==
    IF l = <<>> THEN <<>>
    ELSE LET a_info == l[1] IN
         (a_info.output_name :>
              [artifact_type |-> a_info.artifact_type,
               filepaths |-> a_info.files])
         @@ FirstWins(SubSeq(l, 2, Len(l)))

payload_artifacts_first_wins(success, artifacts_info) ==
    IF success /\ ListTruthy(artifacts_info)
    THEN Some(FirstWins(Value(artifacts_info)))
    ELSE None

payload_artifacts(success, artifacts_info) ==
    IF success /\ ListTruthy(artifacts_info)
    THEN Some(DictComprehension(Value(artifacts_info)))
    ELSE None

\* the error were the message whatever success is
payload_error_kept(success, error_msg) == error_msg

\* error_msg if not success else ''
payload_error(success, error_msg) ==
    IF ~success THEN error_msg ELSE Some(<<>>)

format_payload(success, error_msg, artifacts_info) ==
    [success |-> success,
     error |-> payload_error(success, error_msg),
     artifacts |-> payload_artifacts(success, artifacts_info)]

----------------------------------------------------------------------------
(* _heartbeat, in the daemon thread *)

\* retries = 2, at the top of _heartbeat and after each successful post
HeartbeatRetries == 2
\* time.sleep(300) and time.sleep(30)
BackoffSleep == 300
HeartbeatSleep == 30

NotStarted ==
    [pc |-> "unstarted", retries |-> 0, slept |-> 0, first |-> TRUE,
     fails |-> 0, reason |-> "",
     \* whether the loop entered a post on a test made with JOB_COMPLETED set
     after |-> FALSE,
     \* where the main flow was when the loop gave up or an error left it
     at |-> ""]

\* the frame were the loop to sleep before its first post
heartbeat_enter_sleeping ==
    [NotStarted EXCEPT !.pc = "sleep30", !.retries = HeartbeatRetries]

\* the frame of _heartbeat when the thread starts
heartbeat_enter == [NotStarted EXCEPT !.pc = "loop", !.retries = HeartbeatRetries]

\* the classes of exceptions.py
IsQiitaClientError(type) ==
    type \in {"NotFoundError", "BadRequestError", "ForbiddenError"}

\* the loop's test without the flag
heartbeat_continues_whatever_flag(completed, retries) == retries > 0

\* while not JOB_COMPLETED and retries > 0
heartbeat_continues(completed, retries) == ~completed /\ retries > 0

\* retries -= 1
retries_after_failure(retries) == retries - 1

\* the budget were it not reset
retries_kept(retries) == retries

\* retries = 2 after qclient.post returned
retries_after_success(retries) == HeartbeatRetries

\* an uncaught exception were to reach the thread that started this one
thread_exception_interrupts(main_pc) == "raised"

\* an exception that leaves _heartbeat ends the daemon thread it runs in and
\* nothing else: the main thread stays where it is
thread_exception(main_pc) == main_pc

\* the top of the loop: the test, then qclient.post(url, data='') is entered
HbLoop ==
    /\ hb.pc = "loop"
    /\ IF heartbeat_continues(JOB_COMPLETED, hb.retries)
       THEN /\ hb' = [hb EXCEPT !.pc = "post",
                                !.after = @ \/ JOB_COMPLETED]
            /\ call' = [call EXCEPT !["hb"] =
                          request_retry_enter("post", "heartbeat")]
       ELSE /\ hb' = [hb EXCEPT !.pc = "exited",
                                !.reason = IF JOB_COMPLETED THEN "completed"
                                           ELSE "retries",
                                !.at = IF JOB_COMPLETED THEN "" ELSE pc,
                                !.slept = 0, !.first = FALSE]
            /\ call' = call
    /\ UNCHANGED <<JOB_COMPLETED, token, issued, pc, raised, onf_fp, job_id,
                   task_dict, dir_exists, job_info, locals, task,
                   completeCalls, payload, calls, standalone>>

\* qclient.post returned or raised: the try statement of the loop
HbPosted ==
    /\ hb.pc = "post"
    /\ call["hb"].pc = "done"
    /\ LET type == call["hb"].outcome IN
       hb' = CASE type = "ok" ->
                    [hb EXCEPT !.pc = "sleep30",
                               !.retries = retries_after_success(@),
                               !.slept = 0, !.first = FALSE, !.fails = 0]
                [] type = "ConnectionError" ->
                    [hb EXCEPT !.pc = "sleep300", !.slept = 0, !.first = FALSE,
                               !.fails = IF @ < 3 THEN @ + 1 ELSE @]
                [] IsQiitaClientError(type) ->
                    [hb EXCEPT !.pc = "dead", !.reason = type, !.at = pc,
                               !.slept = 0, !.first = FALSE]
                [] OTHER ->
                    [hb EXCEPT !.pc = "dead", !.reason = "RuntimeError",
                               !.at = pc, !.slept = 0, !.first = FALSE]
    /\ pc' = IF call["hb"].outcome \in {"ok", "ConnectionError"} THEN pc
             ELSE thread_exception(pc)
    /\ call' = [call EXCEPT !["hb"] = Idle]
    /\ UNCHANGED <<JOB_COMPLETED, token, issued, raised, onf_fp, job_id,
                   task_dict, dir_exists, job_info, locals, task,
                   completeCalls, payload, calls, standalone>>

\* except requests.ConnectionError: time.sleep(300); retries -= 1
HbBackoff ==
    /\ hb.pc = "sleep300"
    /\ hb' = [hb EXCEPT !.pc = "sleep30", !.slept = @ + BackoffSleep,
                        !.retries = retries_after_failure(@)]
    /\ UNCHANGED <<JOB_COMPLETED, token, issued, call, pc, raised, onf_fp,
                   job_id, task_dict, dir_exists, job_info, locals, task,
                   completeCalls, payload, calls, standalone>>

\* time.sleep(30) at the end of the loop's body
HbSleep ==
    /\ hb.pc = "sleep30"
    /\ hb' = [hb EXCEPT !.pc = "loop", !.slept = @ + HeartbeatSleep]
    /\ UNCHANGED <<JOB_COMPLETED, token, issued, call, pc, raised, onf_fp,
                   job_id, task_dict, dir_exists, job_info, locals, task,
                   completeCalls, payload, calls, standalone>>

----------------------------------------------------------------------------
(* BaseQiitaPlugin.__call__ and the client's shortcuts it uses *)

NoLocals == [success |-> FALSE, artifacts_info |-> None, error_msg |-> None]

Biom ==
    [output_name |-> "otu_table", artifact_type |-> "BIOM",
     files |-> << <<"/tmp/out/table.biom", "biom">> >>]

\* what a job function may return: (success, artifacts_info, error_msg)
TaskResults ==
    {[success |-> TRUE, artifacts_info |-> Some(<<Biom>>), error_msg |-> None],
     [success |-> TRUE, artifacts_info |-> None, error_msg |-> None],
     [success |-> FALSE, artifacts_info |-> None,
      error_msg |-> Some(<<"failed">>)],
     [success |-> FALSE, artifacts_info |-> Some(<<Biom>>),
      error_msg |-> Some(<<"failed">>)]}

\* what a job function may raise: an Exception (an unpacking error of the
\* returned value included) or a BaseException that is no Exception
TaskRaises == {"Exception", "SystemExit"}

\* an except clause for one class of errors only, which the job function's
\* error is not in
except_catches_none(kind) == FALSE

\* except Exception:
except_catches(kind) == kind = "Exception"

\* repr(traceback.format_exception(*sys.exc_info()))
exc_str(detail) == <<"Traceback (most recent call last):", detail>>

\* "Error executing %s:\n%s" % (task_name, exc_str)
error_text(task_name, detail) ==
    <<"Error executing ", task_name, ":\n">> \o exc_str(detail)

\* the locals were the message not built
except_locals_no_message(task_name, detail) ==
    [success |-> FALSE, artifacts_info |-> None, error_msg |-> None]

\* the locals after the except clause
except_locals(task_name, detail) ==
    [success |-> FALSE, artifacts_info |-> None,
     error_msg |-> Some(error_text(task_name, detail))]

\* task_name = job_info['command']; task = self.task_dict[task_name]:
\* the exception these raise, "" if none
task_lookup(info, tasks) ==
    IF IsNone(info) THEN "TypeError"
    ELSE IF Value(info) # "job" THEN "KeyError"
    ELSE IF "cmd" \notin tasks THEN "KeyError"
    ELSE ""

BeginCall(cs, url) == Append(cs, [url |-> url, outcome |-> ""])
EndCall(cs, outcome) == [cs EXCEPT ![Len(cs)].outcome = outcome]

\* a NotFoundError were swallowed
call_raised_but_not_found(c) == c.outcome \notin {"ok", "NotFoundError"}

\* an exception of a call of the client is caught nowhere in __call__,
\* start_heartbeat, get_job_info or complete_job
call_raised(c) == c.outcome # "ok"

\* config = ConfigParser(); with open(self.onf_fp, 'U') ...: __init__ sets
\* conf_fp only, so the attribute is there only if the caller set it.
\* Then QiitaClient(...) is entered, which fetches the token.
Setup ==
    /\ pc = "start"
    /\ IF onf_fp
       THEN /\ pc' = "construct"
            /\ call' = [call EXCEPT !["main"] =
                          [Idle EXCEPT !.pc = "fetch_token", !.method = "init",
                                       !.url = "authenticate"]]
            /\ raised' = raised
       ELSE /\ pc' = "raised"
            /\ raised' = "AttributeError"
            /\ call' = call
    /\ UNCHANGED <<JOB_COMPLETED, token, issued, onf_fp, job_id, task_dict,
                   dir_exists, job_info, locals, task, completeCalls, payload,
                   calls, hb, standalone>>

\* QiitaClient.__init__ is over; `if job_id == 'register'` (self._install is
\* not defined); else get_job_info is entered
Dispatch ==
    /\ pc = "construct"
    /\ call["main"].pc = "done"
    /\ IF call_raised(call["main"])
       THEN /\ pc' = "raised"
            /\ raised' = call["main"].outcome
            /\ call' = [call EXCEPT !["main"] = Idle]
            /\ calls' = calls
       ELSE IF job_id = "register"
       THEN /\ pc' = "raised"
            /\ raised' = "AttributeError"
            /\ call' = [call EXCEPT !["main"] = Idle]
            /\ calls' = calls
       ELSE /\ pc' = "get_job_info"
            /\ raised' = raised
            /\ call' = [call EXCEPT !["main"] =
                          request_retry_enter("get", "job_info")]
            /\ calls' = BeginCall(calls, "job_info")
    /\ UNCHANGED <<JOB_COMPLETED, token, issued, onf_fp, job_id, task_dict,
                   dir_exists, job_info, locals, task, completeCalls, payload,
                   hb, standalone>>

\* job_info = qclient.get_job_info(job_id); start_heartbeat is entered and
\* its own post begins
JobInfoFetched ==
    /\ pc = "get_job_info"
    /\ call["main"].pc = "done"
    /\ IF call_raised(call["main"])
       THEN /\ pc' = "raised"
            /\ raised' = call["main"].outcome
            /\ call' = [call EXCEPT !["main"] = Idle]
            /\ calls' = EndCall(calls, call["main"].outcome)
            /\ job_info' = job_info
       ELSE /\ pc' = "start_heartbeat"
            /\ raised' = raised
            /\ job_info' = call["main"].result
            /\ call' = [call EXCEPT !["main"] =
                          request_retry_enter("post", "heartbeat")]
            /\ calls' = BeginCall(EndCall(calls, call["main"].outcome),
                                   "heartbeat")
    /\ UNCHANGED <<JOB_COMPLETED, token, issued, onf_fp, job_id, task_dict,
                   dir_exists, locals, task, completeCalls, payload, hb, standalone>>

\* start_heartbeat after its post: the thread is created and started
ThreadStart ==
    /\ pc = "start_heartbeat"
    /\ call["main"].pc = "done"
    /\ IF call_raised(call["main"])
       THEN /\ pc' = "raised"
            /\ raised' = call["main"].outcome
            /\ hb' = hb
       ELSE /\ pc' = "lookup"
            /\ raised' = raised
            /\ hb' = heartbeat_enter
    /\ call' = [call EXCEPT !["main"] = Idle]
    /\ calls' = EndCall(calls, call["main"].outcome)
    /\ UNCHANGED <<JOB_COMPLETED, token, issued, onf_fp, job_id, task_dict,
                   dir_exists, job_info, locals, task, completeCalls, payload,
                   standalone>>

\* the command lookup, `if not exists(output_dir): makedirs(output_dir)`
\* (which may fail), and the job function is entered
TaskInvoke ==
    /\ pc = "lookup"
    /\ IF task_lookup(job_info, task_dict) # ""
       THEN /\ pc' = "raised"
            /\ raised' = task_lookup(job_info, task_dict)
            /\ UNCHANGED <<dir_exists, task>>
       ELSE \/ /\ pc' = "task"
               /\ task' = "running"
               /\ dir_exists' = TRUE
               /\ raised' = raised
            \/ /\ ~dir_exists
               /\ pc' = "raised"
               /\ raised' = "OSError"
               /\ UNCHANGED <<dir_exists, task>>
    /\ UNCHANGED <<JOB_COMPLETED, token, issued, call, onf_fp, job_id,
                   task_dict, job_info, locals, completeCalls, payload,
                   calls, hb, standalone>>

\* the job function returns its triple
TaskReturn ==
    /\ pc = "task"
    /\ \E res \in TaskResults : locals' = res
    /\ task' = "return"
    /\ pc' = "complete_job"
    /\ UNCHANGED <<JOB_COMPLETED, token, issued, call, raised, onf_fp, job_id,
                   task_dict, dir_exists, job_info, completeCalls, payload,
                   calls, hb, standalone>>

\* the job function raises
TaskRaise ==
    /\ pc = "task"
    /\ \E kind \in TaskRaises :
          /\ task' = IF kind = "Exception" THEN "raise" ELSE "exit"
          /\ IF except_catches(kind)
             THEN /\ locals' = except_locals("cmd", "boom")
                  /\ pc' = "complete_job"
                  /\ raised' = raised
             ELSE /\ locals' = locals
                  /\ pc' = "raised"
                  /\ raised' = kind
    /\ UNCHANGED <<JOB_COMPLETED, token, issued, call, onf_fp, job_id,
                   task_dict, dir_exists, job_info, completeCalls, payload,
                   calls, hb, standalone>>

\* complete_job were to leave the flag as it is
flag_kept(flag) == flag

\* global JOB_COMPLETED; JOB_COMPLETED = True
flag_set(flag) == TRUE

\* complete_job: the flag is set, the payload is built, post is entered
CompleteJob ==
    /\ pc = "complete_job"
    /\ JOB_COMPLETED' = flag_set(JOB_COMPLETED)
    /\ payload' = Some(format_payload(locals.success, locals.error_msg,
                                      locals.artifacts_info))
    /\ completeCalls' = completeCalls + 1
    /\ call' = [call EXCEPT !["main"] = request_retry_enter("post", "complete")]
    /\ calls' = BeginCall(calls, "complete")
    /\ pc' = "completing"
    /\ UNCHANGED <<token, issued, raised, onf_fp, job_id, task_dict,
                   dir_exists, job_info, locals, task, hb, standalone>>

\* the thread were joined before complete_job returns
returns_after_join(h) == h.pc \in {"exited", "dead"}

\* complete_job and __call__ return when the post has: the thread, a daemon
\* of which no reference is kept, is not joined
returns_without_join(h) == TRUE

\* the post of complete_job returned or raised, and so does __call__
Completed ==
    /\ pc = "completing"
    /\ call["main"].pc = "done"
    /\ returns_without_join(hb)
    /\ IF call_raised(call["main"])
       THEN /\ pc' = "raised"
            /\ raised' = call["main"].outcome
       ELSE /\ pc' = "done"
            /\ raised' = raised
    /\ call' = [call EXCEPT !["main"] = Idle]
    /\ calls' = EndCall(calls, call["main"].outcome)
    /\ UNCHANGED <<JOB_COMPLETED, token, issued, onf_fp, job_id, task_dict,
                   dir_exists, job_info, locals, task, completeCalls, payload,
                   hb, standalone>>

----------------------------------------------------------------------------
(* The frames used outside the job run, before anything is applied *)

NoCodec ==
    [applied |-> FALSE, success |-> FALSE, error_msg |-> None,
     artifacts_info |-> None, out |-> None]

Jobs == 1..MaxJobs

\* a job run that has not begun: __call__ not entered, no thread
NoRuns ==
    [j \in Jobs |->
        [pc |-> "idle", hb |-> "unstarted", retries |-> 0, posted |-> FALSE,
         reason |-> ""]]

\* patch(url, op, path, value, from_p) not called yet; sent counts the calls
\* of _request_retry it made
NoPatch ==
    [pc |-> "idle", op |-> "", path |-> "", value |-> None, from_p |-> None,
     data |-> None, sent |-> 0, raised |-> "", result |-> None]

\* self == other, self != other and other == self not evaluated yet
NoCmp ==
    [applied |-> FALSE, self |-> None, other |-> None, eq |-> FALSE,
     ne |-> FALSE, rev |-> FALSE]

\* get_job_info not called yet, against a server that answers an authorised
\* request for the job with `server` and accepts the tokens from validFrom on
NoProbe ==
    [pc |-> "idle", server |-> NoResponse, validFrom |-> 0, results |-> <<>>]

\* the job run not begun, as it is while a frame above is exercised
NoRun ==
    /\ JOB_COMPLETED = FALSE
    /\ token = 0
    /\ issued = 0
    /\ call = [t \in Threads |-> Idle]
    /\ pc = "start"
    /\ raised = ""
    /\ onf_fp = FALSE
    /\ job_id = "job1"
    /\ task_dict = {}
    /\ dir_exists = FALSE
    /\ job_info = None
    /\ locals = NoLocals
    /\ task = ""
    /\ completeCalls = 0
    /\ payload = None
    /\ calls = <<>>
    /\ hb = NotStarted

----------------------------------------------------------------------------
(* _format_payload on its own: every input within the bounds *)

TableFile == <<"/tmp/out/table.biom", "biom">>
LogFile == <<"/tmp/out/log.txt", "log">>

\* ArtifactInfo(output_name, artifact_type, files)
Artifacts ==
    [output_name : {"otu_table", "demux"},
     artifact_type : {"BIOM", "FASTQ"},
     files : {<<>>, <<TableFile>>, <<TableFile, LogFile>>,
              <<LogFile, TableFile>>}]

ArtifactLists == UNION {[1..n -> Artifacts] : n \in 0..MaxArtifacts}

CodecInit ==
    /\ codec \in [applied : {FALSE}, success : BOOLEAN,
                  error_msg : {None, Some(<<>>), Some(<<"failed">>)},
                  artifacts_info : {None} \cup {Some(l) : l \in ArtifactLists},
                  out : {None}]
    /\ JOB_COMPLETED = FALSE
    /\ token = 0
    /\ issued = 0
    /\ call = [t \in Threads |-> Idle]
    /\ pc = "start"
    /\ raised = ""
    /\ onf_fp = FALSE
    /\ job_id = "job1"
    /\ task_dict = {}
    /\ dir_exists = FALSE
    /\ job_info = None
    /\ locals = NoLocals
    /\ task = ""
    /\ completeCalls = 0
    /\ payload = None
    /\ calls = <<>>
    /\ hb = NotStarted
    /\ runs = NoRuns
    /\ patch = NoPatch
    /\ cmp = NoCmp
    /\ probe = NoProbe

FormatPayload ==
    /\ ~codec.applied
    /\ codec' = [codec EXCEPT
                   !.applied = TRUE,
                   !.out = Some(format_payload(codec.success, codec.error_msg,
                                               codec.artifacts_info))]
    /\ UNCHANGED <<JOB_COMPLETED, token, issued, call, pc, raised, onf_fp,
                   job_id, task_dict, dir_exists, job_info, locals, task,
                   completeCalls, payload, calls, hb, runs, patch, cmp, probe>>

SpecPayload == CodecInit /\ [][FormatPayload]_vars

----------------------------------------------------------------------------
(* The job run *)

Init ==
    /\ JOB_COMPLETED = FALSE
    /\ token = 0
    /\ issued = 0
    /\ call = [t \in Threads |-> Idle]
    /\ pc = "start"
    /\ raised = ""
    /\ onf_fp \in BOOLEAN
    /\ job_id \in {"register", "job1"}
    /\ task_dict \in {{}, {"cmd"}}
    /\ dir_exists \in BOOLEAN
    /\ job_info = None
    /\ locals = NoLocals
    /\ task = ""
    /\ completeCalls = 0
    /\ payload = None
    /\ calls = <<>>
    /\ hb = NotStarted
    /\ codec = NoCodec
    /\ runs = NoRuns
    /\ patch = NoPatch
    /\ cmp = NoCmp
    /\ probe = NoProbe

Next ==
    \/ \E t \in Threads : Attempt(t)
    \/ \E t \in Threads : FetchToken(t)
    \/ \E t \in Threads : StoreToken(t)
    \/ \E t \in Threads : Resend(t)
    \/ Setup
    \/ Dispatch
    \/ JobInfoFetched
    \/ ThreadStart
    \/ TaskInvoke
    \/ TaskReturn
    \/ TaskRaise
    \/ CompleteJob
    \/ Completed
    \/ HbLoop
    \/ HbPosted
    \/ HbBackoff
    \/ HbSleep

Spec == Init /\ [][Next]_vars

----------------------------------------------------------------------------
(* ArtifactInfo.__eq__ and __ne__ *)

\* set(files)
FileSet(files) == {files[i] : i \in DOMAIN files}

\* the file lists compared as lists
files_differ_as_lists(files, other_files) == files # other_files

\* set(self.files) != set(other.files)
files_differ(files, other_files) == FileSet(files) # FileSet(other_files)

\* ArtifactInfo.__eq__(self, other)
ArtifactInfo_eq(self, other) ==
    IF self.type # other.type THEN FALSE
    ELSE IF \/ self.output_name # other.output_name
            \/ self.artifact_type # other.artifact_type
            \/ files_differ(self.files, other.files)
         THEN FALSE
         ELSE TRUE

\* ArtifactInfo.__ne__(self, other)
ArtifactInfo_ne(self, other) == ~ArtifactInfo_eq(self, other)

\* instances of ArtifactInfo: file lists in both orders, and with a file
\* twice
Instances ==
    [type : {"ArtifactInfo"},
     output_name : {"otu_table", "demux"},
     artifact_type : {"BIOM", "FASTQ"},
     files : {<<>>, <<TableFile>>, <<TableFile, LogFile>>,
              <<LogFile, TableFile>>, <<TableFile, TableFile>>}]

\* values of another type with the same attributes
Lookalikes == {[a EXCEPT !.type = "namedtuple"] : a \in Instances}

CmpInit ==
    /\ NoRun
    /\ codec = NoCodec
    /\ runs = NoRuns
    /\ patch = NoPatch
    /\ probe = NoProbe
    /\ cmp \in {[NoCmp EXCEPT !.self = Some(a), !.other = Some(b)] :
                    a \in Instances, b \in Instances \cup Lookalikes}

\* self == other, self != other and, between instances, other == self
Compare ==
    /\ ~cmp.applied
    /\ LET self == Value(cmp.self)
           other == Value(cmp.other)
       IN cmp' = [cmp EXCEPT
                    !.applied = TRUE,
                    !.eq = ArtifactInfo_eq(self, other),
                    !.ne = ArtifactInfo_ne(self, other),
                    !.rev = IF other \in Instances
                            THEN ArtifactInfo_eq(other, self)
                            ELSE FALSE]
    /\ UNCHANGED <<JOB_COMPLETED, token, issued, call, pc, raised, onf_fp,
                   job_id, task_dict, dir_exists, job_info, locals, task,
                   completeCalls, payload, calls, hb, codec, runs, patch,
                   probe>>

SpecEq == CmpInit /\ [][Compare]_vars

----------------------------------------------------------------------------
(* QiitaClient.patch on a constructed client *)

\* the operations of JSON PATCH, and one that is none of them
PatchOps == {"add", "remove", "replace", "move", "copy", "test", "merge"}

\* the test of from_p left out
patch_invalid_value_only(op, value, from_p) ==
    IF op \in {"add", "replace", "test"} /\ IsNone(value) THEN "ValueError"
    ELSE ""

\* the two tests at the top of patch: the error they raise, "" if none
patch_invalid(op, value, from_p) ==
    IF op \in {"add", "replace", "test"} /\ IsNone(value) THEN "ValueError"
    ELSE IF op \in {"move", "copy"} /\ IsNone(from_p) THEN "ValueError"
    ELSE ""

\* data = {'op': op, 'path': path}; data['value'] = value and
\* data['from'] = from_p when they are not None
patch_data(op, path, value, from_p) ==
    LET d0 == ("op" :> op) @@ ("path" :> path)
        d1 == IF ~IsNone(value) THEN ("value" :> Value(value)) @@ d0 ELSE d0
    IN IF ~IsNone(from_p) THEN ("from" :> Value(from_p)) @@ d1 ELSE d1

\* patch up to its call of _request_retry(requests.patch, url, data=data)
Patch ==
    /\ patch.pc = "called"
    /\ IF patch_invalid(patch.op, patch.value, patch.from_p) # ""
       THEN /\ patch' = [patch EXCEPT
                           !.pc = "raised",
                           !.raised = patch_invalid(patch.op, patch.value,
                                                    patch.from_p)]
            /\ call' = call
       ELSE /\ patch' = [patch EXCEPT
                           !.pc = "sending",
                           !.data = Some(patch_data(patch.op, patch.path,
                                                    patch.value, patch.from_p)),
                           !.sent = @ + 1]
            /\ call' = [call EXCEPT !["main"] =
                          request_retry_enter("patch", "endpoint")]
    /\ UNCHANGED <<JOB_COMPLETED, token, issued, pc, raised, onf_fp, job_id,
                   task_dict, dir_exists, job_info, locals, task,
                   completeCalls, payload, calls, hb, codec, runs, cmp, probe>>

\* return self._request_retry(...): its value or its exception is patch's
PatchReturned ==
    /\ patch.pc = "sending"
    /\ call["main"].pc = "done"
    /\ patch' = IF call_raised(call["main"])
                THEN [patch EXCEPT !.pc = "raised",
                                   !.raised = call["main"].outcome]
                ELSE [patch EXCEPT !.pc = "returned",
                                   !.result = call["main"].result]
    /\ call' = [call EXCEPT !["main"] = Idle]
    /\ UNCHANGED <<JOB_COMPLETED, token, issued, pc, raised, onf_fp, job_id,
                   task_dict, dir_exists, job_info, locals, task,
                   completeCalls, payload, calls, hb, codec, runs, cmp, probe>>

\* the client is constructed (it holds its first token) and patch is called
PatchInit ==
    /\ JOB_COMPLETED = FALSE
    /\ token = 1
    /\ issued = 1
    /\ call = [t \in Threads |-> Idle]
    /\ pc = "start"
    /\ raised = ""
    /\ onf_fp = FALSE
    /\ job_id = "job1"
    /\ task_dict = {}
    /\ dir_exists = FALSE
    /\ job_info = None
    /\ locals = NoLocals
    /\ task = ""
    /\ completeCalls = 0
    /\ payload = None
    /\ calls = <<>>
    /\ hb = NotStarted
    /\ codec = NoCodec
    /\ runs = NoRuns
    /\ cmp = NoCmp
    /\ probe = NoProbe
    /\ patch \in {[NoPatch EXCEPT !.pc = "called", !.op = op, !.path = "/x",
                                   !.value = v, !.from_p = f] :
                      op \in PatchOps, v \in {None, Some("1")},
                      f \in {None, Some("/y")}}

PatchNext ==
    \/ Patch
    \/ Attempt("main")
    \/ FetchToken("main")
    \/ StoreToken("main")
    \/ Resend("main")
    \/ PatchReturned

SpecPatch == PatchInit /\ [][PatchNext]_vars

----------------------------------------------------------------------------
(* get_job_info called twice against a server whose job does not change *)

\* how often get_job_info is called
ProbeCalls == 2

\* what the server may hold for the job: the job, an empty object, a body
\* that is no JSON, no such job, a failing endpoint
ServerAnswers ==
    {[status |-> 200, body |-> "job"], [status |-> 200, body |-> "empty"],
     [status |-> 200, body |-> "text"], [status |-> 404, body |-> "text"],
     [status |-> 500, body |-> "text"]}

\* the server's response to a request carrying the token bearer
Serve(bearer) ==
    IF bearer >= probe.validFrom THEN probe.server
    ELSE [status |-> 400, body |-> "expired"]

\* get_job_info(job_id): return self.get("/qiita_db/jobs/%s" % job_id)
GetJobInfo ==
    /\ probe.pc = "ready"
    /\ Len(probe.results) < ProbeCalls
    /\ probe' = [probe EXCEPT !.pc = "get"]
    /\ call' = [call EXCEPT !["main"] = request_retry_enter("get", "job_info")]
    /\ UNCHANGED <<JOB_COMPLETED, token, issued, pc, raised, onf_fp, job_id,
                   task_dict, dir_exists, job_info, locals, task,
                   completeCalls, payload, calls, hb, codec, runs, patch, cmp>>

\* a turn of the loop of _request_retry, the server answering
ServedAttempt ==
    /\ probe.pc = "get"
    /\ call["main"].pc = "attempt"
    /\ call["main"].retries > 0
    /\ call' = [call EXCEPT !["main"] =
                  request_oauth2_first(
                      [@ EXCEPT !.retries = @ - 1,
                                !.bearer = authorization(call["main"], token)],
                      Serve(authorization(call["main"], token)))]
    /\ UNCHANGED <<JOB_COMPLETED, token, issued, pc, raised, onf_fp, job_id,
                   task_dict, dir_exists, job_info, locals, task,
                   completeCalls, payload, calls, hb, standalone>>

\* the second req() of _request_oauth2, the server answering
ServedResend ==
    /\ probe.pc = "get"
    /\ call["main"].pc = "resend"
    /\ call' = [call EXCEPT !["main"] =
                  request_oauth2_resend(
                      [@ EXCEPT !.bearer = authorization(call["main"], token)],
                      Serve(authorization(call["main"], token)))]
    /\ UNCHANGED <<JOB_COMPLETED, token, issued, pc, raised, onf_fp, job_id,
                   task_dict, dir_exists, job_info, locals, task,
                   completeCalls, payload, calls, hb, standalone>>

\* get_job_info returns what get returned, or raises what it raised
JobInfoReturned ==
    /\ probe.pc = "get"
    /\ call["main"].pc = "done"
    /\ probe' = [probe EXCEPT
                   !.pc = "ready",
                   !.results = Append(@, [outcome |-> call["main"].outcome,
                                          result |-> call["main"].result,
                                          stored |-> call["main"].stored])]
    /\ call' = [call EXCEPT !["main"] = Idle]
    /\ UNCHANGED <<JOB_COMPLETED, token, issued, pc, raised, onf_fp, job_id,
                   task_dict, dir_exists, job_info, locals, task,
                   completeCalls, payload, calls, hb, codec, runs, patch, cmp>>

\* the server stops accepting the tokens issued so far, between two calls
\* or during one. A token is not taken to expire between its issue and its
\* first use.
TokenExpires ==
    /\ probe.pc \in {"ready", "get"}
    /\ probe.validFrom <= issued
    /\ issued < MaxTokens
    /\ call["main"].pc \notin {"fetch_token", "store_token", "resend"}
    /\ probe' = [probe EXCEPT !.validFrom = issued + 1]
    /\ UNCHANGED <<JOB_COMPLETED, token, issued, call, pc, raised, onf_fp,
                   job_id, task_dict, dir_exists, job_info, locals, task,
                   completeCalls, payload, calls, hb, codec, runs, patch, cmp>>

\* a constructed client, holding the first token, which the server accepts
ProbeInit ==
    /\ JOB_COMPLETED = FALSE
    /\ token = 1
    /\ issued = 1
    /\ call = [t \in Threads |-> Idle]
    /\ pc = "start"
    /\ raised = ""
    /\ onf_fp = FALSE
    /\ job_id = "job1"
    /\ task_dict = {}
    /\ dir_exists = FALSE
    /\ job_info = None
    /\ locals = NoLocals
    /\ task = ""
    /\ completeCalls = 0
    /\ payload = None
    /\ calls = <<>>
    /\ hb = NotStarted
    /\ codec = NoCodec
    /\ runs = NoRuns
    /\ patch = NoPatch
    /\ cmp = NoCmp
    /\ probe \in {[NoProbe EXCEPT !.pc = "ready", !.server = a,
                                   !.validFrom = 1] : a \in ServerAnswers}

ProbeNext ==
    \/ GetJobInfo
    \/ ServedAttempt
    \/ FetchToken("main")
    \/ StoreToken("main")
    \/ ServedResend
    \/ JobInfoReturned
    \/ TokenExpires

SpecProbe == ProbeInit /\ [][ProbeNext]_vars

----------------------------------------------------------------------------
(* Several job runs in one process: every run uses the module's one
   JOB_COMPLETED. The calls of the client are reduced to the way they end. *)

\* what qclient.post(url, data='') of the loop may end with
PostOutcomes == {"ok", "ConnectionError", "NotFoundError", "RuntimeError"}

\* __call__ up to the job function: start_heartbeat has started the thread
RunStart(j) ==
    /\ runs[j].pc = "idle"
    /\ runs' = [runs EXCEPT ![j] =
                  [@ EXCEPT !.pc = "running", !.hb = "loop",
                            !.retries = HeartbeatRetries]]
    /\ UNCHANGED <<JOB_COMPLETED, token, issued, call, pc, raised, onf_fp,
                   job_id, task_dict, dir_exists, job_info, locals, task,
                   completeCalls, payload, calls, hb, codec, patch, cmp,
                   probe>>

\* the job function is over and complete_job sets the module's flag
RunComplete(j) ==
    /\ runs[j].pc = "running"
    /\ JOB_COMPLETED' = TRUE
    /\ runs' = [runs EXCEPT ![j].pc = "completed"]
    /\ UNCHANGED <<token, issued, call, pc, raised, onf_fp, job_id,
                   task_dict, dir_exists, job_info, locals, task,
                   completeCalls, payload, calls, hb, codec, patch, cmp,
                   probe>>

\* while not JOB_COMPLETED and retries > 0, in the thread of run j
RunLoop(j) ==
    /\ runs[j].hb = "loop"
    /\ runs' = [runs EXCEPT ![j] =
                  IF heartbeat_continues(JOB_COMPLETED, @.retries)
                  THEN [@ EXCEPT !.hb = "post"]
                  ELSE [@ EXCEPT !.hb = "exited",
                                 !.reason = IF JOB_COMPLETED THEN "completed"
                                            ELSE "retries"]]
    /\ UNCHANGED <<JOB_COMPLETED, token, issued, call, pc, raised, onf_fp,
                   job_id, task_dict, dir_exists, job_info, locals, task,
                   completeCalls, payload, calls, hb, codec, patch, cmp,
                   probe>>

\* the try statement of the loop, in the thread of run j
RunPosted(j) ==
    /\ runs[j].hb = "post"
    /\ \E type \in PostOutcomes :
          runs' = [runs EXCEPT ![j] =
                     CASE type = "ok" ->
                              [@ EXCEPT !.hb = "sleep30", !.posted = TRUE,
                                        !.retries = retries_after_success(@)]
                       [] type = "ConnectionError" ->
                              [@ EXCEPT !.hb = "sleep300"]
                       [] OTHER ->
                              [@ EXCEPT !.hb = "dead", !.reason = type]]
    /\ UNCHANGED <<JOB_COMPLETED, token, issued, call, pc, raised, onf_fp,
                   job_id, task_dict, dir_exists, job_info, locals, task,
                   completeCalls, payload, calls, hb, codec, patch, cmp,
                   probe>>

\* time.sleep(300); retries -= 1
RunBackoff(j) ==
    /\ runs[j].hb = "sleep300"
    /\ runs' = [runs EXCEPT ![j] =
                  [@ EXCEPT !.hb = "sleep30",
                            !.retries = retries_after_failure(@)]]
    /\ UNCHANGED <<JOB_COMPLETED, token, issued, call, pc, raised, onf_fp,
                   job_id, task_dict, dir_exists, job_info, locals, task,
                   completeCalls, payload, calls, hb, codec, patch, cmp,
                   probe>>

\* time.sleep(30)
RunSleep(j) ==
    /\ runs[j].hb = "sleep30"
    /\ runs' = [runs EXCEPT ![j].hb = "loop"]
    /\ UNCHANGED <<JOB_COMPLETED, token, issued, call, pc, raised, onf_fp,
                   job_id, task_dict, dir_exists, job_info, locals, task,
                   completeCalls, payload, calls, hb, codec, patch, cmp,
                   probe>>

JobsInit ==
    /\ NoRun
    /\ codec = NoCodec
    /\ runs = NoRuns
    /\ patch = NoPatch
    /\ cmp = NoCmp
    /\ probe = NoProbe

JobsNext ==
    \E j \in Jobs :
        \/ RunStart(j)
        \/ RunComplete(j)
        \/ RunLoop(j)
        \/ RunPosted(j)
        \/ RunBackoff(j)
        \/ RunSleep(j)

SpecJobs == JobsInit /\ [][JobsNext]_vars

----------------------------------------------------------------------------
(* The heartbeat thread from its start, every call and sleep of it returning.
   Of the main flow only the job function's return and the entry of
   complete_job are kept, taken at any moment or never. *)

\* the thread has just been started and the job function is running
HeartbeatInit ==
    /\ JOB_COMPLETED = FALSE
    /\ token = 1
    /\ issued = 1
    /\ call = [t \in Threads |-> Idle]
    /\ pc = "task"
    /\ raised = ""
    /\ onf_fp = TRUE
    /\ job_id = "job1"
    /\ task_dict = {"cmd"}
    /\ dir_exists = TRUE
    /\ job_info = Some("job")
    /\ locals = NoLocals
    /\ task = "running"
    /\ completeCalls = 0
    /\ payload = None
    /\ calls = <<[url |-> "job_info", outcome |-> "ok"],
                 [url |-> "heartbeat", outcome |-> "ok"]>>
    /\ hb = heartbeat_enter
    /\ codec = NoCodec
    /\ runs = NoRuns
    /\ patch = NoPatch
    /\ cmp = NoCmp
    /\ probe = NoProbe

\* a step of the thread: of _heartbeat or of the post it is in
HeartbeatStep ==
    \/ HbLoop
    \/ Attempt("hb")
    \/ FetchToken("hb")
    \/ StoreToken("hb")
    \/ Resend("hb")
    \/ HbPosted
    \/ HbBackoff
    \/ HbSleep

HeartbeatNext ==
    \/ HeartbeatStep
    \/ TaskReturn
    \/ CompleteJob

\* the thread is scheduled, and its requests and sleeps return
SpecHeartbeat ==
    /\ HeartbeatInit
    /\ [][HeartbeatNext]_vars
    /\ WF_vars(HeartbeatStep)

----------------------------------------------------------------------------
(* One call of get, post or patch on a constructed client, every request of
   it returning *)

\* get, post and patch: return self._request_retry(requests.<method>, ...)
Methods == {"get", "post", "patch"}

\* the client holds its first token and the call has entered _request_retry
TransportInit ==
    /\ JOB_COMPLETED = FALSE
    /\ token = 1
    /\ issued = 1
    /\ \E method \in Methods :
          call = [t \in Threads |->
                    IF t = "main" THEN request_retry_enter(method, "endpoint")
                    ELSE Idle]
    /\ pc = "start"
    /\ raised = ""
    /\ onf_fp = FALSE
    /\ job_id = "job1"
    /\ task_dict = {}
    /\ dir_exists = FALSE
    /\ job_info = None
    /\ locals = NoLocals
    /\ task = ""
    /\ completeCalls = 0
    /\ payload = None
    /\ calls = <<>>
    /\ hb = NotStarted
    /\ codec = NoCodec
    /\ runs = NoRuns
    /\ patch = NoPatch
    /\ cmp = NoCmp
    /\ probe = NoProbe

TransportNext ==
    \/ Attempt("main")
    \/ FetchToken("main")
    \/ StoreToken("main")
    \/ Resend("main")

\* the requests of the call and of its token fetches return
SpecTransport ==
    /\ TransportInit
    /\ [][TransportNext]_vars
    /\ WF_vars(TransportNext)

----------------------------------------------------------------------------
(* The transport: token expiry, status classes, connection failures *)

\* the calls of get/post/patch in progress or just over
TransportCalls == {t \in Threads : call[t].pc # "idle" /\ call[t].method # "init"}

\* turns of the loop of _request_retry begun by the call
Turns(c) == RequestRetries - c.retries

Bit(b) == IF b THEN 1 ELSE 0

Terminal(status) == status \in {200, 400, 403, 404}

\* C1 as stated: within one call, a token-expiry 400 triggers exactly one
\* token fetch and one resend, whatever the other responses of the call
\* are, and no fetch happens without such a response.
C1_OneRefreshPerCall ==
    \A t \in TransportCalls :
        LET c == call[t] IN
        /\ c.fetches + Bit(c.pc = "fetch_token") = Bit(c.expired > 0)
        /\ c.resends <= 1

\* C1 amended: in each turn of the retry loop, a token-expiry 400 answering
\* the turn's first send triggers exactly one token fetch and, once the token
\* is stored, exactly one resend, whose response triggers no fetch; no other
\* response triggers a fetch; hence at most one fetch per turn and at most
\* two in a call.
C1_OneRefreshPerTurn ==
    \A t \in TransportCalls :
        LET c == call[t] IN
        /\ c.fetches + Bit(c.pc = "fetch_token") = c.expired
        /\ c.resends + Bit(c.pc = "resend") = c.stored
        /\ c.stored + Bit(c.pc = "store_token") <= c.fetches
        /\ c.expired <= Turns(c)
        /\ Turns(c) <= RequestRetries
        /\ c.pc \in {"fetch_token", "store_token", "resend"} => IsExpiry(c.r)

\* a call that fetched the token twice: once in each turn of the loop
C1_Witness ==
    \E t \in TransportCalls :
        /\ call[t].pc = "done"
        /\ call[t].fetches = 2
        /\ call[t].resends = 2

\* C2: the status of the final response decides how the call ends: 404
\* NotFoundError, 403 ForbiddenError, 400 BadRequestError whatever the body
\* is, 200 the parsed body or None. (Calls ended by a failed token fetch or
\* an unreachable server have no final response and are left out.)
C2_StatusDecides ==
    \A t \in TransportCalls :
        LET c == call[t] IN
        (/\ c.pc = "done"
         /\ c.r # NoResponse
         /\ c.outcome \notin {"ValueError", "ConnectionError"})
        => /\ c.r.status = 404 => c.outcome = "NotFoundError"
           /\ c.r.status = 403 => c.outcome = "ForbiddenError"
           /\ c.r.status = 400 => c.outcome = "BadRequestError"
           /\ c.r.status = 200 =>
                 /\ c.outcome = "ok"
                 /\ c.result = IF IsJSON(c.r.body) THEN Some(c.r.body) ELSE None

----------------------------------------------------------------------------
(* The job run: complete_job, failures of the job function and of the
   calls before it *)

Ended == pc \in {"done", "raised"}

\* the k-th call of the main flow ended with an exception
CallFailed(k) == Len(calls) >= k /\ calls[k].outcome \notin {"", "ok"}

C5_JobErrorReported ==
    task = "raise" =>
        /\ pc \in {"complete_job", "completing", "done", "raised"}
        /\ raised # "Exception"
        /\ pc # "complete_job" =>
              /\ completeCalls = 1
              /\ Len(calls) = 3 /\ calls[3].url = "complete"
              /\ ~IsNone(payload)
              /\ Value(payload).success = FALSE
              /\ ~IsNone(Value(payload).error)
              /\ Len(Value(Value(payload).error)) > 0
              /\ \E i \in DOMAIN Value(Value(payload).error) :
                    Value(Value(payload).error)[i] = "boom"
              /\ IsNone(Value(payload).artifacts)

\* the job function raised and the run is over, the completion posted
C5_Witness ==
    /\ task = "raise"
    /\ pc = "done"
    /\ calls[3].outcome = "ok"

\* C6: when get_job_info raises, the error leaves __call__ and the run has
\* sent no heartbeat, started no thread, not entered the job function and
\* not called complete_job; when the post of start_heartbeat raises, the
\* error leaves __call__ and no thread, job function or complete_job follows.
C6_EarlyFailurePropagates ==
    /\ CallFailed(1) =>
          /\ pc = "raised"
          /\ raised = calls[1].outcome
          /\ Len(calls) = 1
          /\ hb.pc = "unstarted"
          /\ call["hb"].pc = "idle"
          /\ task = ""
          /\ completeCalls = 0
    /\ CallFailed(2) =>
          /\ calls[2].url = "heartbeat"
          /\ pc = "raised"
          /\ raised = calls[2].outcome
          /\ Len(calls) = 2
          /\ hb.pc = "unstarted"
          /\ task = ""
          /\ completeCalls = 0

\* the server answered 404 to the job-info fetch and the run is over
C6_Witness ==
    /\ Len(calls) = 1
    /\ calls[1] = [url |-> "job_info", outcome |-> "NotFoundError"]
    /\ pc = "raised"

----------------------------------------------------------------------------
(* _format_payload *)

ArtifactValue(a_info) ==
    [artifact_type |-> a_info.artifact_type, filepaths |-> a_info.files]

\* C7: success true gives error '', success false gives no artifacts
\* whatever was passed and the error that was passed (None when absent).
C7_PayloadErrorAndArtifacts ==
    codec.applied =>
        LET out == Value(codec.out) IN
        /\ out.success = codec.success
        /\ codec.success => out.error = Some(<<>>)
        /\ ~codec.success =>
              /\ IsNone(out.artifacts)
              /\ out.error = codec.error_msg

\* a failure with artifacts passed and no message
C7_Witness ==
    /\ codec.applied
    /\ ~codec.success
    /\ ListTruthy(codec.artifacts_info)
    /\ IsNone(codec.error_msg)
    /\ IsNone(Value(codec.out).artifacts)

\* C8 as stated: with success and a non-empty list the mapping has one entry
\* per artifact of the list, the one of its output name, holding its type
\* and files; with success and an empty or absent list there is no mapping.
C8_OneEntryPerArtifact ==
    (codec.applied /\ codec.success) =>
        LET out == Value(codec.out) IN
        IF ListTruthy(codec.artifacts_info)
        THEN LET l == Value(codec.artifacts_info) IN
             /\ ~IsNone(out.artifacts)
             /\ Cardinality(DOMAIN Value(out.artifacts)) = Len(l)
             /\ \A i \in 1..Len(l) :
                   /\ l[i].output_name \in DOMAIN Value(out.artifacts)
                   /\ Value(out.artifacts)[l[i].output_name] = ArtifactValue(l[i])
        ELSE IsNone(out.artifacts)

\* C8 amended: with success and a non-empty list the mapping has one entry
\* per distinct output name of the list, holding the type and the files, in
\* their order, of the last artifact of the list with that name (so one
\* entry per artifact when the names differ); with success and an empty or
\* absent list there is no mapping.
C8_OneEntryPerName ==
    (codec.applied /\ codec.success) =>
        LET out == Value(codec.out) IN
        IF ListTruthy(codec.artifacts_info)
        THEN LET l == Value(codec.artifacts_info) IN
             /\ ~IsNone(out.artifacts)
             /\ DOMAIN Value(out.artifacts) =
                   {l[i].output_name : i \in 1..Len(l)}
             /\ \A i \in 1..Len(l) :
                   (\A j \in (i + 1)..Len(l) :
                        l[j].output_name # l[i].output_name)
                   => Value(out.artifacts)[l[i].output_name] = ArtifactValue(l[i])
        ELSE IsNone(out.artifacts)

\* two artifacts of one output name and different files, and the payload
C8_Witness ==
    /\ codec.applied
    /\ codec.success
    /\ ListTruthy(codec.artifacts_info)
    /\ LET l == Value(codec.artifacts_info) IN
       /\ Len(l) = 2
       /\ l[1].output_name = l[2].output_name
       /\ l[1].files = <<TableFile, LogFile>>
       /\ l[2].files = <<LogFile, TableFile>>
       /\ Cardinality(DOMAIN Value(Value(codec.out).artifacts)) = 1

----------------------------------------------------------------------------
(* The heartbeat *)

\* start_heartbeat returned
HeartbeatStarted == pc \in {"lookup", "task", "complete_job", "completing", "done"}

\* the one post of start_heartbeat is over, with success, before the thread
\* exists and before start_heartbeat returns; no thread after a failed post
SynchronousHeartbeat ==
    /\ Cardinality({k \in DOMAIN calls : calls[k].url = "heartbeat"}) <= 1
    /\ (hb.pc # "unstarted" \/ HeartbeatStarted) =>
          /\ Len(calls) >= 2
          /\ calls[2] = [url |-> "heartbeat", outcome |-> "ok"]
    /\ CallFailed(2) => hb.pc = "unstarted"
    /\ (pc = "start_heartbeat") => hb.pc = "unstarted"

\* C9 as stated: the synchronous post comes first, and every post of the
\* loop, its first one too, comes after a sleep of 30 seconds.
C9_LoopSleepsFirst ==
    /\ SynchronousHeartbeat
    /\ hb.pc = "post" => hb.slept >= HeartbeatSleep

\* C9 amended: the synchronous post comes first; the loop sends its first
\* post at once when the thread starts, without sleeping, and each later
\* post after a sleep of 30 seconds (330 after a connection failure).
C9_LoopPostsAtOnce ==
    /\ SynchronousHeartbeat
    /\ hb.pc = "post" =>
          hb.slept = IF hb.first THEN 0
                     ELSE IF hb.fails > 0 THEN BackoffSleep + HeartbeatSleep
                     ELSE HeartbeatSleep
    /\ (hb.pc = "loop" /\ ~hb.first) => hb.slept >= HeartbeatSleep

\* the first post of the loop is over and the thread has not slept yet
C9_Witness ==
    /\ hb.pc = "post"
    /\ hb.first
    /\ hb.slept = 0
    /\ call["hb"].pc = "done"
    /\ call["hb"].outcome = "ok"

\* C10: the budget is 2 less the connection failures in a row: it starts at
\* 2, loses one at each failure and is 2 again after a successful post; the
\* loop gives up with the job not completed only after 2 failures in a row,
\* and never posts a third time after them.
C10_UnreachabilityBudget ==
    hb.pc # "unstarted" =>
        /\ hb.fails <= HeartbeatRetries
        /\ hb.retries = HeartbeatRetries - hb.fails + Bit(hb.pc = "sleep300")
        /\ hb.pc = "post" => hb.fails < HeartbeatRetries
        /\ (hb.pc = "loop" /\ hb.first) => hb.retries = 2
        /\ (hb.pc = "exited" /\ hb.reason = "retries") =>
              hb.fails = HeartbeatRetries
        /\ (hb.pc = "exited" /\ hb.fails < HeartbeatRetries) => JOB_COMPLETED

\* the loop gave up after two failures in a row, the job not completed
C10_Witness ==
    /\ hb.pc = "exited"
    /\ hb.reason = "retries"
    /\ hb.fails = 2
    /\ ~JOB_COMPLETED

----------------------------------------------------------------------------
(* The heartbeat thread and the main flow *)

\* the loop gave up on the server or an error left _heartbeat
HeartbeatFailed == hb.pc = "dead" \/ (hb.pc = "exited" /\ hb.reason = "retries")

\* the run ended with an error of the main flow's own steps: the command
\* lookup or makedirs, the job function, or the post of complete_job
MainOwnFailure ==
    \/ raised \in {"TypeError", "KeyError", "OSError"} /\ task = ""
          /\ Len(calls) = 2
    \/ raised = "SystemExit" /\ task = "exit"
    \/ Len(calls) = 3 /\ CallFailed(3) /\ raised = calls[3].outcome

\* C11: once the heartbeat loop ended by an error of a liveness call or by
\* giving up on an unreachable server, the main flow is as it is without
\* that: it ends with an error only of its own steps, the job function
\* keeps running until it returns or raises, and once it has, complete_job
\* is called exactly once, with the payload of the job function's outcome.
C11_HeartbeatFailureStaysInside ==
    HeartbeatFailed =>
        /\ pc = "raised" => MainOwnFailure
        /\ task = "running" => pc = "task"
        /\ completeCalls <= 1
        /\ (Ended /\ task \in {"return", "raise"}) => completeCalls = 1
        /\ completeCalls = 1 =>
              /\ payload = Some(format_payload(locals.success, locals.error_msg,
                                               locals.artifacts_info))
              /\ task = "return" => locals \in TaskResults
              /\ task = "raise" => locals = except_locals("cmd", "boom")

\* a liveness call failed while the job function was running, and the run
\* ended with the job function's result posted
C11_Witness ==
    /\ hb.pc = "dead"
    /\ hb.at = "task"
    /\ pc = "done"
    /\ task = "return"
    /\ completeCalls = 1

\* what the main flow can read: the module's flag, the client's token, its
\* own call of the client and its locals (start_heartbeat keeps no reference
\* to the thread it starts)
MainReadable ==
    <<JOB_COMPLETED, token, call["main"], pc, raised, job_info, locals,
      task, completeCalls, payload, calls>>

\* C12: a typed client error of a liveness call ends the loop, no liveness
\* call follows, and the step that ends it changes something the main flow
\* can read (so that "ended with a fatal error" differs, for the main flow,
\* from "still running").
C12_FatalErrorObservable ==
    /\ [](hb.pc = "dead" => call["hb"].pc = "idle")
    /\ [][(hb.pc = "post" /\ hb'.pc # "post" /\ IsQiitaClientError(call["hb"].outcome))
            => /\ hb'.pc = "dead"
               /\ MainReadable' # MainReadable]_vars

----------------------------------------------------------------------------
(* Several job runs in one process *)

\* C13: the flag a heartbeat loop sees is the one of its own run: a loop
\* that left because of the flag belongs to a run that called complete_job,
\* and while its run has not, a loop is stopped only by its own failures.
C13_FlagPerRun ==
    \A j \in Jobs :
        (runs[j].hb = "exited" /\ runs[j].reason = "completed")
        => runs[j].pc = "completed"

----------------------------------------------------------------------------
(* patch *)

PatchActed == patch.pc \in {"sending", "returned", "raised"}

\* C14: with op add, replace or test and no value, or op move or copy and no
\* from_p, patch raises ValueError, no request was sent, no transport call
\* made and the client's token is what it was; in every other case patch
\* makes exactly one transport call, a PATCH, whose data holds op and path,
\* value exactly when a value was given and from exactly when a from_p was.
C14_PatchArguments ==
    PatchActed =>
        IF \/ patch.op \in {"add", "replace", "test"} /\ patch.value = None
           \/ patch.op \in {"move", "copy"} /\ patch.from_p = None
        THEN /\ patch.pc = "raised"
             /\ patch.raised = "ValueError"
             /\ patch.sent = 0
             /\ patch.data = None
             /\ call["main"] = Idle
             /\ token = 1 /\ issued = 1
        ELSE /\ patch.sent = 1
             /\ patch.pc = "sending" => call["main"].method = "patch"
             /\ patch.data # None
             /\ LET data == Value(patch.data) IN
                /\ {"op", "path"} \subseteq DOMAIN data
                /\ DOMAIN data \subseteq {"op", "path", "value", "from"}
                /\ data["op"] = patch.op
                /\ data["path"] = patch.path
                /\ "value" \in DOMAIN data <=> patch.value # None
                /\ "value" \in DOMAIN data => data["value"] = Value(patch.value)
                /\ "from" \in DOMAIN data <=> patch.from_p # None
                /\ "from" \in DOMAIN data => data["from"] = Value(patch.from_p)

\* a move without from_p, a value given: the ValueError and nothing sent
C14_Witness ==
    /\ patch.pc = "raised"
    /\ patch.op = "move"
    /\ patch.from_p = None
    /\ patch.value # None
    /\ patch.raised = "ValueError"
    /\ patch.sent = 0

----------------------------------------------------------------------------
(* ArtifactInfo equality *)

\* every file of f is a file of g
FilesWithin(f, g) == \A i \in DOMAIN f : \E k \in DOMAIN g : g[k] = f[i]

\* C15: self == other holds exactly when other is an ArtifactInfo of the
\* same output name, the same artifact type and the same files, whatever
\* their order and number of repetitions in the two lists; != is its
\* negation; between instances other == self gives the same, and an
\* instance equals itself; a value of another type is never equal.
C15_ArtifactInfoEquality ==
    cmp.applied =>
        LET self == Value(cmp.self)
            other == Value(cmp.other)
        IN /\ cmp.eq <=> /\ other.type = "ArtifactInfo"
                         /\ self.output_name = other.output_name
                         /\ self.artifact_type = other.artifact_type
                         /\ FilesWithin(self.files, other.files)
                         /\ FilesWithin(other.files, self.files)
           /\ cmp.ne <=> ~cmp.eq
           /\ other \in Instances => cmp.rev = cmp.eq
           /\ self = other => cmp.eq
           /\ other \notin Instances => ~cmp.eq

\* the same two files in the other order: equal
C15_Witness ==
    /\ cmp.applied
    /\ Value(cmp.self).files = <<TableFile, LogFile>>
    /\ Value(cmp.other).files = <<LogFile, TableFile>>
    /\ cmp.eq
    /\ ~cmp.ne

----------------------------------------------------------------------------
(* The token, shared by the two threads *)

\* thread t sends a request in this step
Sends(t) == call[t].pc \in {"attempt", "resend"} /\ call'[t] # call[t]

\* the tokens _fetch_token has stored so far
StoredTokens ==
    (1..issued) \ {call[t].pending : t \in {u \in Threads :
                                               call[u].pc = "store_token"}}

\* C16 as stated: the stored token is the newest of the tokens stored so
\* far, the one of the authentication that succeeded last, so that no
\* request carries a token older than one a finished refresh has stored.
C16_NewestTokenStored ==
    \A k \in StoredTokens : token >= k

\* C16 amended: every request carries the token stored at the moment its
\* header is set, the first send of a turn and the resend after a refresh
\* alike; the stored token changes only when a _fetch_token stores the token
\* it was given, and is one of the tokens issued. (Which of two refreshes
\* stores last decides the stored token, not which token was issued last.)
C16_AttachedTokenIsStored ==
    /\ [](token \in 0..issued)
    /\ [][/\ \A t \in Threads : Sends(t) => call'[t].bearer = token
          /\ token' # token =>
                \E t \in Threads :
                    /\ call[t].pc = "store_token"
                    /\ token' = call[t].pending
                    /\ call'[t].stored = call[t].stored + 1]_vars

\* both threads have fetched and stored a token, the one issued first was
\* stored last, and a resend has carried it
C16_Witness ==
    /\ call["main"].stored >= 1
    /\ call["hb"].stored >= 1
    /\ \A t \in Threads : call[t].pc # "store_token"
    /\ token < issued
    /\ \E t \in Threads :
          /\ call[t].pc = "done"
          /\ call[t].resends >= 1
          /\ call[t].bearer = token

----------------------------------------------------------------------------
(* get_job_info twice *)

\* what a call of get ends with against the server, the token aside
Expected ==
    [outcome |-> CASE probe.server.status = 200 -> "ok"
                   [] probe.server.status = 404 -> "NotFoundError"
                   [] OTHER -> "RuntimeError",
     result |-> IF probe.server.status = 200 /\ probe.server.body # "text"
                THEN Some(probe.server.body)
                ELSE None]

\* the call ended with the identity endpoint refusing or unreachable
AuthFailed(res) == res.outcome \in {"ValueError", "ConnectionError"}

\* C17: every call of get_job_info ends the way the server's unchanged
\* answer for the job decides, with the job info it holds, whether the
\* token was refreshed during the call or not (a refresh that the identity
\* endpoint fails aside); so two calls end alike and return the same.
C17_JobInfoIdempotent ==
    /\ Len(probe.results) <= ProbeCalls
    /\ \A k \in DOMAIN probe.results :
          LET res == probe.results[k] IN
          ~AuthFailed(res) =>
              /\ res.outcome = Expected.outcome
              /\ res.result = Expected.result
    /\ \A k, m \in DOMAIN probe.results :
          (probe.results[k].outcome = "ok" /\ probe.results[m].outcome = "ok")
          => probe.results[k].result = probe.results[m].result

\* the first call returned the job with the first token, the token expired,
\* and the second call refreshed it and returned the same job
C17_Witness ==
    /\ Len(probe.results) = 2
    /\ probe.results[1] = [outcome |-> "ok", result |-> Some("job"), stored |-> 0]
    /\ probe.results[2] = [outcome |-> "ok", result |-> Some("job"), stored |-> 1]
    /\ token = 2

----------------------------------------------------------------------------
(* The completion flag and the heartbeat loop *)

\* the loop has entered a post and sent nothing of it yet
PostNotSent ==
    /\ hb.pc = "post"
    /\ call["hb"].pc = "attempt"
    /\ Turns(call["hb"]) = 0

\* C18: the loop enters a post only on a test that saw JOB_COMPLETED unset;
\* so of its posts only the one entered before complete_job set the flag
\* can start after that, and once the flag is set and the loop is past its
\* post (asleep, at its test or ended) it enters no other.
C18_OneLatePost ==
    /\ [](/\ ~hb.after
          /\ (hb.pc = "exited" /\ hb.reason = "completed") => JOB_COMPLETED)
    /\ [][(JOB_COMPLETED /\ hb.pc # "post") => hb'.pc # "post"]_vars

\* the loop tested the flag and entered its post, and complete_job set the
\* flag before the first request of that post was sent
C18_Witness ==
    /\ JOB_COMPLETED
    /\ PostNotSent
    /\ ~hb.first

\* C19: the flag changes only in the step of complete_job that comes before
\* its post sends anything, only from unset to set, and the heartbeat thread
\* is not what changes it; it is set from then on, also when the post of
\* complete_job fails, and the loop leaves at its next test all the same.
C19_FlagSetBeforePost ==
    /\ [](/\ Len(calls) = 3 => JOB_COMPLETED
          /\ JOB_COMPLETED <=> completeCalls = 1
          /\ CallFailed(3) => JOB_COMPLETED)
    /\ [][/\ JOB_COMPLETED' # JOB_COMPLETED =>
                /\ JOB_COMPLETED'
                /\ pc = "complete_job"
                /\ pc' = "completing"
                /\ call'["main"] = request_retry_enter("post", "complete")
                /\ hb' = hb
          /\ (JOB_COMPLETED /\ hb.pc = "loop" /\ hb' # hb) =>
                /\ hb'.pc = "exited"
                /\ hb'.reason = "completed"]_vars

\* the post of complete_job failed, the flag is set and the loop has left
C19_Witness ==
    /\ pc = "raised"
    /\ CallFailed(3)
    /\ calls[3].url = "complete"
    /\ JOB_COMPLETED
    /\ hb.pc = "exited"
    /\ hb.reason = "completed"

\* a step of the main flow from the command lookup on
MainStep ==
    \/ TaskInvoke
    \/ TaskReturn
    \/ TaskRaise
    \/ CompleteJob
    \/ Completed
    \/ Attempt("main")
    \/ FetchToken("main")
    \/ StoreToken("main")
    \/ Resend("main")

\* C20: once the thread is started and until __call__ is over, a step of
\* the main flow is enabled wherever the heartbeat thread is (in its post,
\* in either sleep, at its test, ended): the main flow waits for no step of
\* the thread.
C20_MainNeverWaits ==
    (hb.pc # "unstarted" /\ ~Ended) => ENABLED MainStep

\* __call__ returned while the thread was in its sleep of 300 seconds
C20_Witness ==
    /\ pc = "done"
    /\ hb.pc = "sleep300"
    /\ ~IsNone(payload)

----------------------------------------------------------------------------
(* The end of the heartbeat loop *)

HeartbeatEnded == hb.pc \in {"exited", "dead"}

\* C21: once JOB_COMPLETED is set the loop ends (its calls and sleeps
\* returning); and the loop ends only by the flag, by its budget of
\* connection failures being used up, or by an error of a post: while the
\* flag is unset and the posts succeed, a test sends the loop into its next
\* post.
C21_LoopEndsByFlagBudgetOrError ==
    /\ JOB_COMPLETED ~> HeartbeatEnded
    /\ [](/\ hb.pc = "exited" =>
                \/ hb.reason = "completed" /\ JOB_COMPLETED
                \/ /\ hb.reason = "retries"
                   /\ hb.retries = 0
                   /\ hb.fails = HeartbeatRetries
          /\ hb.pc = "dead" =>
                \/ IsQiitaClientError(hb.reason)
                \/ hb.reason = "RuntimeError")
    /\ [][/\ (hb.pc = "loop" /\ ~JOB_COMPLETED /\ hb.fails = 0 /\ hb' # hb)
                => hb'.pc = "post"
          /\ (hb.pc # hb'.pc /\ hb'.pc = "dead")
                => /\ hb.pc = "post"
                   /\ call["hb"].outcome \notin {"ok", "ConnectionError"}
          /\ (hb.pc # hb'.pc /\ hb'.pc = "exited") => hb.pc = "loop"]_vars

\* the flag was set while the loop waited after a connection failure, and
\* the loop left at its next test
C21_Witness ==
    /\ JOB_COMPLETED
    /\ hb.pc = "exited"
    /\ hb.reason = "completed"
    /\ hb.fails = 1

----------------------------------------------------------------------------
(* The turns of _request_retry *)

\* in this step the call of thread t gets the last response of a turn of
\* its loop
TurnEnds(t) ==
    /\ Sends(t)
    /\ call'[t].pc # "fetch_token"
    /\ call'[t].unreachable = call[t].unreachable

\* C22: a call of get, post or patch ends, after at most two turns of its
\* loop: a turn whose response has status 200, 400, 403 or 404 ends the
\* call; a first turn whose response has another status is followed by
\* exactly one more turn; a second turn whose response has another status
\* ends the call with the RuntimeError holding the method, the url, that
\* status and the response text; there is no third turn.
C22_AtMostTwoTurns ==
    /\ <>(call["main"].pc = "done")
    /\ [](LET c == call["main"] IN
          /\ Turns(c) \in 0..RequestRetries
          /\ (c.pc # "done" /\ Turns(c) = RequestRetries) =>
                c.pc \in {"fetch_token", "store_token", "resend"}
          /\ c.outcome = "RuntimeError" =>
                /\ Turns(c) = RequestRetries
                /\ ~Terminal(c.r.status)
                /\ c.msg = [method |-> c.method, url |-> c.url,
                            status |-> c.r.status, text |-> c.r.body])
    /\ [][TurnEnds("main") =>
             LET c == call'["main"] IN
             IF Terminal(c.r.status)
             THEN /\ c.pc = "done"
                  /\ c.outcome # "RuntimeError"
             ELSE IF Turns(c) = 1
             THEN /\ c.pc = "attempt"
                  /\ c.retries = 1
             ELSE /\ c.pc = "done"
                  /\ c.outcome = "RuntimeError"]_vars

\* a patch answered 500 in both turns: the RuntimeError
C22_Witness ==
    /\ call["main"].pc = "done"
    /\ call["main"].method = "patch"
    /\ Turns(call["main"]) = 2
    /\ call["main"].outcome = "RuntimeError"
    /\ call["main"].r.status = 500
    /\ call["main"].fetches = 0

----------------------------------------------------------------------------
(* A failed authentication *)

\* the authenticate url answered the call of thread t with a status that is
\* not 200
AuthRefused(t) == call[t].auth \notin {-1, Unreachable.status, AuthOk.status}

\* C23: when the authenticate url answers with a status other than 200,
\* the fetch ends with the ValueError, which ends the call it was made in:
\* nothing is stored and nothing sent again. In the constructor that leaves
\* the client without a token, and __call__ ends with the error, no request
\* of the client sent. The stored token changes only when a fetch answered
\* with 200 stores its token.
C23_AuthenticationFailure ==
    /\ [](/\ \A t \in Threads :
                AuthRefused(t) =>
                    /\ call[t].pc = "done"
                    /\ call[t].outcome = "ValueError"
                    /\ call[t].stored = call[t].fetches - 1
                    /\ call[t].resends = call[t].stored
                    /\ call[t].method = "init" =>
                          /\ token = 0
                          /\ calls = <<>>
                          /\ hb.pc = "unstarted"
          /\ (raised = "ValueError" /\ calls = <<>>) =>
                /\ pc = "raised"
                /\ token = 0
                /\ call["hb"] = Idle
                /\ hb.pc = "unstarted"
                /\ completeCalls = 0)
    /\ [][/\ \A t \in Threads :
                (call[t].pc = "fetch_token" /\ AuthRefused(t)')
                => /\ token' = token
                   /\ issued' = issued
          /\ token' # token =>
                \E t \in Threads :
                    /\ call[t].pc = "store_token"
                    /\ call[t].auth = AuthOk.status
                    /\ token' = call[t].pending]_vars

\* the token expired, the authenticate url refused the fetch, and the call
\* ended with the ValueError, nothing sent again
C23_Witness ==
    \E t \in TransportCalls :
        /\ AuthRefused(t)
        /\ call[t].pc = "done"
        /\ call[t].outcome = "ValueError"
        /\ call[t].fetches = 1
        /\ call[t].resends = 0
        /\ token = call[t].bearer

====
